---- MODULE Spec2Model ----
(***************************************************************************)
(* Model of src/core/sec.py: retrieval of SEC company facts for a ticker   *)
(* and their restructuring into a concept-indexed document.                *)
(*                                                                         *)
(* A Python str is a sequence of one-character strings, so that the        *)
(* character scans and formatting of the code (str.isupper, str.strip,     *)
(* str.lower, str.zfill, the "," format specifier) are computed and not    *)
(* assumed.  A Python dict is a sequence of (key, value) entries with      *)
(* distinct keys, in insertion order.                                      *)
(***************************************************************************)
EXTENDS Integers, Sequences, FiniteSets, TLC

VARIABLES
    fact_call,        \* make_fact: the arguments as the caller passed them
    fact_frame,       \* make_fact: its locals and its position
    info_call,        \* make_concept_info: its arguments
    info_frame,       \* make_concept_info: its locals and loop position
    pc,               \* get_filings_from_ticker: its position
    ticker,           \* get_filings_from_ticker: the ticker argument
    response,         \* the reply of www.sec.gov to the company list request
    companies,        \* the list get_company_identifiers returned
    cik,              \* the value get_cik_from_ticker returned
    facts_response,   \* the reply of data.sec.gov to the company facts request
    raw_data,         \* the value get_raw_data returned
    tags,             \* the value get_tags returned
    concept_filings,  \* the dict make_concept_filings is building
    cursor,           \* make_concept_filings: position of its loop pair
    files,            \* the files written so far, by path
    outcome           \* how the run ended: the value returned or the error raised

vars == <<fact_call, fact_frame, info_call, info_frame, pc, ticker, response,
          companies, cik, facts_response, raw_data, tags, concept_filings,
          cursor, files, outcome>>

factVars == <<fact_call, fact_frame>>
infoVars == <<info_call, info_frame>>
runVars  == <<pc, ticker, response, companies, cik, facts_response, raw_data,
              tags, concept_filings, cursor, files, outcome>>

\* An optional value: Python's None, or a value x that is not None.
None == <<>>
Some(x) == <<x>>

\* A dict is a sequence of entries [key, value] with distinct keys, in
\* insertion order.
HasKey(d, k) == \E i \in 1..Len(d) : d[i].key = k

\* d[k], for a key d has.
Get(d, k) == d[CHOOSE i \in 1..Len(d) : d[i].key = k].value

\* list(d.keys())
Keys(d) == [i \in 1..Len(d) |-> d[i].key]

\* d[k] = v: a new key goes last, a key d has keeps its place.
Put(d, k, v) ==
    IF HasKey(d, k)
    THEN [i \in 1..Len(d) |->
            IF d[i].key = k THEN [key |-> k, value |-> v] ELSE d[i]]
    ELSE Append(d, [key |-> k, value |-> v])

\* An exception raised, and a value returned.
Raised(error) == [kind |-> "raised", error |-> error]
Returned(value) == [kind |-> "returned", value |-> value]

-----------------------------------------------------------------------------
(* Characters and strings                                                  *)

UpperChars == <<"A","B","C","D","E","F","G","H","I","J","K","L","M","N","O","P","Q","R","S","T","U","V","W","X","Y","Z">>

LowerChars == <<"a","b","c","d","e","f","g","h","i","j","k","l","m","n","o","p","q","r","s","t","u","v","w","x","y","z">>

DigitChars == <<"0","1","2","3","4","5","6","7","8","9">>

\* str.isupper() of one character.
IsUpper(char) == \E i \in 1..Len(UpperChars) : UpperChars[i] = char

\* The characters str.strip() removes.
Whitespace == {" ", "\t", "\n", "\r"}

RECURSIVE LStrip(_)
LStrip(s) ==
    IF s # <<>> /\ Head(s) \in Whitespace THEN LStrip(Tail(s)) ELSE s

RECURSIVE RStrip(_)
RStrip(s) ==
    IF s # <<>> /\ s[Len(s)] \in Whitespace
    THEN RStrip(SubSeq(s, 1, Len(s) - 1))
    ELSE s

\* str.strip()
Strip(s) == RStrip(LStrip(s))

\* str.lower() of one character.
LowerChar(char) ==
    IF IsUpper(char)
    THEN LowerChars[CHOOSE i \in 1..Len(UpperChars) : UpperChars[i] = char]
    ELSE char

\* str.lower()
Lower(s) == [i \in 1..Len(s) |-> LowerChar(s[i])]

\* The decimal digits of a natural number, most significant first.
RECURSIVE Digits(_)
Digits(n) ==
    IF n < 10
    THEN <<DigitChars[n + 1]>>
    ELSE Digits(n \div 10) \o <<DigitChars[(n % 10) + 1]>>

\* str(n) and f"{n}" of an int.
Str(n) == IF n < 0 THEN <<"-">> \o Digits(-n) ELSE Digits(n)

-----------------------------------------------------------------------------
(* make_fact                                                               *)

\* The list comprehension of make_fact: ' ' + char before an upper-case char.
RECURSIVE SpaceUpper(_)
SpaceUpper(tag) ==
    IF tag = <<>>
    THEN <<>>
    ELSE (IF IsUpper(Head(tag)) THEN <<" ", Head(tag)>> ELSE <<Head(tag)>>)
         \o SpaceUpper(Tail(tag))

\* Humanize without the strip() of line 121.
HumanizeNoStrip(tag) == SpaceUpper(tag)

\* concept = ''.join([...]).strip()
Humanize(tag) == Strip(SpaceUpper(tag))

\* PeriodDisplay without the substitution of lines 122-123.
PeriodDisplayRaw(fiscal_period) == fiscal_period

\* if fiscal_period == 'FY': fiscal_period = 'Full Year'
PeriodDisplay(fiscal_period) ==
    IF fiscal_period = <<"F","Y">>
    THEN <<"F","u","l","l"," ","Y","e","a","r">>
    ELSE fiscal_period

\* GroupDigits with the groups of three counted from the left.
RECURSIVE GroupDigitsFromLeft(_)
GroupDigitsFromLeft(ds) ==
    IF Len(ds) <= 3
    THEN ds
    ELSE SubSeq(ds, 1, 3) \o <<",">> \o GroupDigitsFromLeft(SubSeq(ds, 4, Len(ds)))

\* The "," option of the format specification: the digits in groups of three
\* counted from the right, separated by commas.
RECURSIVE GroupDigits(_)
GroupDigits(ds) ==
    IF Len(ds) <= 3
    THEN ds
    ELSE GroupDigits(SubSeq(ds, 1, Len(ds) - 3))
         \o <<",">> \o SubSeq(ds, Len(ds) - 2, Len(ds))

\* formatted_value = f"{value:,}"
FormatValue(value) ==
    IF value < 0
    THEN <<"-">> \o GroupDigits(Digits(-value))
    ELSE GroupDigits(Digits(value))

\* The f-string of make_fact, its pieces concatenated from left to right.
Sentence(concept, fiscal_year, fiscal_period, form_type, date_filed, formatted_value, unit) ==
    <<"T","h","e"," ","r","e","p","o","r","t","e","d"," ","'">> \o concept
    \o <<"'"," ","i","n"," ">> \o Str(fiscal_year)
    \o <<" ","(">> \o fiscal_period
    \o <<")"," ","f","i","l","e","d"," ","i","n"," ","a"," ">> \o form_type
    \o <<" ","f","o","r","m"," ","o","n"," ">> \o date_filed
    \o <<" ","w","a","s"," ">> \o formatted_value
    \o <<" ">> \o unit \o <<".">>

\* make_fact as a function of its arguments (the value it returns).
MakeFact(tag, value, unit, fiscal_year, fiscal_period, form_type, date_filed) ==
    Sentence(Humanize(tag), fiscal_year, PeriodDisplay(fiscal_period),
             form_type, date_filed, FormatValue(value), unit)

\* The locals of make_fact on entry.
FactEntry(call) ==
    [pc |-> "concept", fiscal_period |-> call.fiscal_period,
     concept |-> None, formatted_value |-> None, fact |-> None]

FactIdle == [pc |-> "idle"]

\* line 119: concept = ''.join([...]).strip()
FactConcept ==
    /\ fact_frame.pc = "concept"
    /\ fact_frame' = [fact_frame EXCEPT !.pc = "period",
                                        !.concept = Humanize(fact_call.tag)]
    /\ UNCHANGED <<fact_call, infoVars, runVars>>

\* lines 122-123: if fiscal_period == 'FY': fiscal_period = 'Full Year'
FactPeriod ==
    /\ fact_frame.pc = "period"
    /\ fact_frame' = [fact_frame EXCEPT
                        !.pc = "format",
                        !.fiscal_period = PeriodDisplay(fact_frame.fiscal_period)]
    /\ UNCHANGED <<fact_call, infoVars, runVars>>

\* line 124: formatted_value = f"{value:,}"
FactFormat ==
    /\ fact_frame.pc = "format"
    /\ fact_frame' = [fact_frame EXCEPT
                        !.pc = "sentence",
                        !.formatted_value = FormatValue(fact_call.value)]
    /\ UNCHANGED <<fact_call, infoVars, runVars>>

\* lines 125-130: fact = (f"..."); return fact
FactSentence ==
    /\ fact_frame.pc = "sentence"
    /\ fact_frame' = [fact_frame EXCEPT
                        !.pc = "returned",
                        !.fact = Sentence(fact_frame.concept,
                                          fact_call.fiscal_year,
                                          fact_frame.fiscal_period,
                                          fact_call.form_type,
                                          fact_call.date_filed,
                                          fact_frame.formatted_value,
                                          fact_call.unit)]
    /\ UNCHANGED <<fact_call, infoVars, runVars>>

-----------------------------------------------------------------------------
(* make_concept_info                                                       *)

\* The keys make_concept_info reads from a filing.
FilingKeys == {"val", "fy", "fp", "form", "filed"}

\* lines 157-164: the flattened filing appended to concept['filings'].
FlattenedFiling(unit, filing) ==
    [unit |-> unit, value |-> filing.val, fiscal_year |-> filing.fy,
     fiscal_period |-> filing.fp, form_type |-> filing.form,
     date_filed |-> filing.filed]

\* AppendFiling that appends nothing for a filing whose sentence is already
\* among the facts (a deduplicating loop body).
AppendFilingSkipRepeated(concept, unit, filing) ==
    LET fact == MakeFact(concept.tag, filing.val, unit, filing.fy, filing.fp,
                         filing.form, filing.filed)
        seen == \E i \in 1..Len(concept.facts) : concept.facts[i] = fact
    IN  IF seen
        THEN concept
        ELSE [concept EXCEPT
                !.facts = Append(@, fact),
                !.filings = Append(@, FlattenedFiling(unit, filing))]

\* AppendFiling that deduplicates the facts alone.
AppendFactSkipRepeated(concept, unit, filing) ==
    LET fact == MakeFact(concept.tag, filing.val, unit, filing.fy, filing.fp,
                         filing.form, filing.filed)
        seen == \E i \in 1..Len(concept.facts) : concept.facts[i] = fact
    IN  [concept EXCEPT
           !.facts = IF seen THEN @ ELSE Append(@, fact),
           !.filings = Append(@, FlattenedFiling(unit, filing))]

\* lines 147-164: the body of the loop pair, for one filing of one unit.
AppendFiling(concept, unit, filing) ==
    [concept EXCEPT
       !.facts = Append(@, MakeFact(concept.tag, filing.val, unit, filing.fy,
                                    filing.fp, filing.form, filing.filed)),
       !.filings = Append(@, FlattenedFiling(unit, filing))]

\* Whether company_data['facts'][taxonomy][tag] can be read.
HasConcept(company_data, tag, taxonomy) ==
    /\ "facts" \in DOMAIN company_data
    /\ HasKey(company_data.facts, taxonomy)
    /\ HasKey(Get(company_data.facts, taxonomy), tag)

\* company_data['facts'][taxonomy][tag]
RawConcept(company_data, tag, taxonomy) ==
    Get(Get(company_data.facts, taxonomy), tag)

\* The locals of make_concept_info on entry.
InfoEntry == [pc |-> "header", concept |-> None, ui |-> 1, fi |-> 1]

\* One step of make_concept_info from the frame f: lines 138-145 from
\* "header", then one turn of the loop pair of lines 145-164, then line 166.
InfoStep(call, f) ==
    IF f.pc = "header"
    THEN IF ~ HasConcept(call.company_data, call.tag, call.taxonomy)
         THEN [f EXCEPT !.pc = "raised"]
         ELSE LET raw == RawConcept(call.company_data, call.tag, call.taxonomy)
              IN  IF {"label", "description", "units"} \subseteq DOMAIN raw
                  THEN [f EXCEPT
                          !.pc = "loop",
                          !.concept = [tag |-> call.tag,
                                       taxonomy |-> call.taxonomy,
                                       label |-> raw.label,
                                       description |-> raw.description,
                                       facts |-> <<>>,
                                       filings |-> <<>>]]
                  ELSE [f EXCEPT !.pc = "raised"]
    ELSE LET units == RawConcept(call.company_data, call.tag, call.taxonomy).units
         IN  IF f.ui > Len(units)
             THEN [f EXCEPT !.pc = "returned"]
             ELSE IF f.fi > Len(units[f.ui].value)
             THEN [f EXCEPT !.ui = @ + 1, !.fi = 1]
             ELSE LET filing == units[f.ui].value[f.fi]
                  IN  IF FilingKeys \subseteq DOMAIN filing
                      THEN [f EXCEPT
                              !.concept = AppendFiling(@, units[f.ui].key, filing),
                              !.fi = @ + 1]
                      ELSE [f EXCEPT !.pc = "raised"]

\* make_concept_info run to its end: the frame it returns or raises from.
RECURSIVE InfoRun(_, _)
InfoRun(call, f) ==
    IF f.pc \in {"returned", "raised"} THEN f ELSE InfoRun(call, InfoStep(call, f))

\* make_concept_info(company_data, tag, taxonomy): the record returned, or
\* the KeyError raised.
MakeConceptInfo(company_data, tag, taxonomy) ==
    LET f == InfoRun([company_data |-> company_data, tag |-> tag,
                      taxonomy |-> taxonomy], InfoEntry)
    IN  IF f.pc = "returned" THEN Returned(f.concept) ELSE Raised("KeyError")

\* The units the loop pair of the running call iterates over.
InfoUnits == RawConcept(info_call.company_data, info_call.tag, info_call.taxonomy).units

\* lines 138-145: the record's metadata and its two empty lists.
InfoHeader ==
    /\ info_frame.pc = "header"
    /\ info_frame' = InfoStep(info_call, info_frame)
    /\ UNCHANGED <<info_call, factVars, runVars>>

\* lines 146-164: one filing of the current unit, its sentence and its
\* flattened filing appended.
InfoAppend ==
    /\ info_frame.pc = "loop"
    /\ info_frame.ui <= Len(InfoUnits)
    /\ info_frame.fi <= Len(InfoUnits[info_frame.ui].value)
    /\ info_frame' = InfoStep(info_call, info_frame)
    /\ UNCHANGED <<info_call, factVars, runVars>>

\* line 145: the filings of the current unit are exhausted, the next unit.
InfoNextUnit ==
    /\ info_frame.pc = "loop"
    /\ info_frame.ui <= Len(InfoUnits)
    /\ info_frame.fi > Len(InfoUnits[info_frame.ui].value)
    /\ info_frame' = InfoStep(info_call, info_frame)
    /\ UNCHANGED <<info_call, factVars, runVars>>

\* line 166: return concept
InfoReturn ==
    /\ info_frame.pc = "loop"
    /\ info_frame.ui > Len(InfoUnits)
    /\ info_frame' = InfoStep(info_call, info_frame)
    /\ UNCHANGED <<info_call, factVars, runVars>>

-----------------------------------------------------------------------------
(* get_company_identifiers, get_cik_from_ticker                            *)

\* The width str.zfill pads the cik to.
CikWidth == 10

\* str.zfill(width) of a string of digits.
RECURSIVE ZFill(_, _)
ZFill(s, width) == IF Len(s) >= width THEN s ELSE ZFill(<<"0">> \o s, width)

\* lines 35-41: the company list built from the values of the reply's JSON.
CompanyList(result) ==
    [i \in 1..Len(result) |->
        [name |-> result[i].title,
         ticker |-> Lower(result[i].ticker),
         cik |-> ZFill(Str(result[i].cik_str), CikWidth)]]

\* GetCikFromTicker without the early return: the last match wins.
GetCikLastMatch(wanted, company_list) ==
    IF \E i \in 1..Len(company_list) : company_list[i].ticker = wanted
    THEN Some(company_list[CHOOSE i \in 1..Len(company_list) :
                 /\ company_list[i].ticker = wanted
                 /\ \A j \in (i + 1)..Len(company_list) :
                       company_list[j].ticker # wanted].cik)
    ELSE None

\* lines 62-70: the cik of the first company whose ticker equals the one
\* asked for, None when the loop ends without one.
RECURSIVE GetCikFromTicker(_, _)
GetCikFromTicker(wanted, company_list) ==
    IF company_list = <<>>
    THEN None
    ELSE IF Head(company_list).ticker = wanted
         THEN Some(Head(company_list).cik)
         ELSE GetCikFromTicker(wanted, Tail(company_list))

-----------------------------------------------------------------------------
(* get_tags, make_concept_filings                                          *)

\* lines 98-103: for each taxonomy of the document, the list of its tags.
GetTags(company_data) ==
    [i \in 1..Len(company_data.facts) |->
        [key |-> company_data.facts[i].key,
         value |-> Keys(company_data.facts[i].value)]]

\* Insert that keeps the record a tag already has.
InsertKeepFirst(filings, tag, concept) ==
    IF HasKey(filings, tag) THEN filings ELSE Put(filings, tag, concept)

\* Insert into a dict emptied at each turn of the loop.
InsertAlone(filings, tag, concept) == <<[key |-> tag, value |-> concept]>>

\* Insert that merges the label of the record a tag already has.
InsertRelabelled(filings, tag, concept) ==
    Put(filings, tag,
        IF HasKey(filings, tag)
        THEN [concept EXCEPT !.label = Get(filings, tag).label]
        ELSE concept)

\* line 178: concept_filings[tag] = concept
Insert(filings, tag, concept) == Put(filings, tag, concept)

-----------------------------------------------------------------------------
(* get_filings_from_ticker                                                 *)

\* The run ends by raising error.
Raise(error) == pc' = "done" /\ outcome' = Raised(error)

\* line 195: get_company_identifiers (lines 24-52).  The request may time
\* out; a reply of status 200 gives the company list, saved to
\* ./data/sec/companies.json, which cannot be opened when ./data/sec does not
\* exist; any other status gives None.
GetCompanyIdentifiers ==
    /\ pc = "companies"
    /\ IF response.kind = "timeout"
       THEN /\ Raise("Timeout")
            /\ UNCHANGED <<companies, files>>
       ELSE IF response.status_code = 200
       THEN IF files.data_dir
            THEN /\ companies' = Some(CompanyList(response.json))
                 /\ files' = [files EXCEPT
                                !.companies_json = Some(CompanyList(response.json))]
                 /\ pc' = "cik"
                 /\ UNCHANGED outcome
            ELSE /\ Raise("FileNotFoundError")
                 /\ UNCHANGED <<companies, files>>
       ELSE /\ companies' = None
            /\ pc' = "cik"
            /\ UNCHANGED <<files, outcome>>
    /\ UNCHANGED <<ticker, response, cik, facts_response, raw_data, tags,
                   concept_filings, cursor, factVars, infoVars>>

\* lines 196-198: get_cik_from_ticker, whose loop cannot iterate over None,
\* and the ValueError for a ticker without a cik.
ResolveCik ==
    /\ pc = "cik"
    /\ IF companies = None
       THEN /\ Raise("TypeError")
            /\ UNCHANGED cik
       ELSE /\ cik' = GetCikFromTicker(ticker, companies[1])
            /\ IF cik' = None
               THEN Raise("ValueError")
               ELSE pc' = "raw_data" /\ UNCHANGED outcome
    /\ UNCHANGED <<ticker, response, companies, facts_response, raw_data, tags,
                   concept_filings, cursor, files, factVars, infoVars>>

\* lines 199-201: get_raw_data (lines 73-90) and the ValueError for None.
GetRawData ==
    /\ pc = "raw_data"
    /\ IF facts_response.kind = "timeout"
       THEN /\ Raise("Timeout")
            /\ UNCHANGED raw_data
       ELSE IF facts_response.status_code = 200
       THEN /\ raw_data' = Some(facts_response.json)
            /\ pc' = "tags"
            /\ UNCHANGED outcome
       ELSE /\ raw_data' = None
            /\ Raise("ValueError")
    /\ UNCHANGED <<ticker, response, companies, cik, facts_response, tags,
                   concept_filings, cursor, files, factVars, infoVars>>

\* lines 202 and 174: get_tags, which raises KeyError for a document without
\* 'facts', and the empty dict of make_concept_filings.
EnumerateTags ==
    /\ pc = "tags"
    /\ IF "facts" \in DOMAIN raw_data[1]
       THEN /\ tags' = Some(GetTags(raw_data[1]))
            /\ concept_filings' = Some(<<>>)
            /\ cursor' = [ti |-> 1, gi |-> 1]
            /\ pc' = "assemble"
            /\ UNCHANGED outcome
       ELSE /\ Raise("KeyError")
            /\ UNCHANGED <<tags, concept_filings, cursor>>
    /\ UNCHANGED <<ticker, response, companies, cik, facts_response, raw_data,
                   files, factVars, infoVars>>

\* AssembleTag that swallows the KeyError and goes on with the next tag.
AssembleTagSkipFailed ==
    /\ pc = "assemble"
    /\ cursor.ti <= Len(tags[1])
    /\ cursor.gi <= Len(tags[1][cursor.ti].value)
    /\ LET taxonomy == tags[1][cursor.ti].key
           tag == tags[1][cursor.ti].value[cursor.gi]
           built == MakeConceptInfo(raw_data[1], tag, taxonomy)
       IN  /\ concept_filings' =
                 IF built.kind = "returned"
                 THEN Some(Insert(concept_filings[1], tag, built.value))
                 ELSE concept_filings
           /\ cursor' = [cursor EXCEPT !.gi = @ + 1]
           /\ UNCHANGED <<pc, outcome>>
    /\ UNCHANGED <<ticker, response, companies, cik, facts_response, raw_data,
                   tags, files, factVars, infoVars>>

\* lines 176-178: one tag of the current taxonomy: its record is built and
\* stored under the tag; a KeyError of make_concept_info ends the run.
AssembleTag ==
    /\ pc = "assemble"
    /\ cursor.ti <= Len(tags[1])
    /\ cursor.gi <= Len(tags[1][cursor.ti].value)
    /\ LET taxonomy == tags[1][cursor.ti].key
           tag == tags[1][cursor.ti].value[cursor.gi]
           built == MakeConceptInfo(raw_data[1], tag, taxonomy)
       IN  IF built.kind = "returned"
           THEN /\ concept_filings' =
                      Some(Insert(concept_filings[1], tag, built.value))
                /\ cursor' = [cursor EXCEPT !.gi = @ + 1]
                /\ UNCHANGED <<pc, outcome>>
           ELSE /\ Raise(built.error)
                /\ UNCHANGED <<concept_filings, cursor>>
    /\ UNCHANGED <<ticker, response, companies, cik, facts_response, raw_data,
                   tags, files, factVars, infoVars>>

\* line 175: the tags of the current taxonomy are exhausted, the next one.
AssembleNextTaxonomy ==
    /\ pc = "assemble"
    /\ cursor.ti <= Len(tags[1])
    /\ cursor.gi > Len(tags[1][cursor.ti].value)
    /\ cursor' = [ti |-> cursor.ti + 1, gi |-> 1]
    /\ UNCHANGED <<pc, ticker, response, companies, cik, facts_response,
                   raw_data, tags, concept_filings, files, outcome, factVars,
                   infoVars>>

\* line 180: return concept_filings
AssembleReturn ==
    /\ pc = "assemble"
    /\ cursor.ti > Len(tags[1])
    /\ pc' = "save"
    /\ UNCHANGED <<ticker, response, companies, cik, facts_response, raw_data,
                   tags, concept_filings, cursor, files, outcome, factVars,
                   infoVars>>

\* lines 205-210: the directory is made and the document written to
\* <save_path>/<ticker>.json.
WriteOutput ==
    /\ pc = "save"
    /\ files' = [files EXCEPT !.data_dir = TRUE,
                              !.ticker_json = concept_filings]
    /\ pc' = "written"
    /\ UNCHANGED <<ticker, response, companies, cik, facts_response, raw_data,
                   tags, concept_filings, cursor, outcome, factVars, infoVars>>

\* lines 212-215: the file is confirmed to exist and the document returned.
ReturnFilings ==
    /\ pc = "written"
    /\ pc' = "done"
    /\ outcome' = IF files.ticker_json = None
                  THEN Raised("FileNotFoundError")
                  ELSE Returned(concept_filings[1])
    /\ UNCHANGED <<ticker, response, companies, cik, facts_response, raw_data,
                   tags, concept_filings, cursor, files, factVars, infoVars>>

-----------------------------------------------------------------------------
(* Inputs                                                                  *)

\* Longest tag drawn over TagAlphabet.
MaxTagLen == 3

\* Largest power of ten among the reported values.
MaxPow == 7

\* All sequences over S of length at most n.
BoundedSeqs(S, n) == UNION {[1..k -> S] : k \in 0..n}

RECURSIVE Pow10(_)
Pow10(k) == IF k = 0 THEN 1 ELSE 10 * Pow10(k - 1)

AssetsCurrent == <<"A","s","s","e","t","s","C","u","r","r","e","n","t">>
EPS == <<"E","P","S">>
USD == <<"U","S","D">>
Shares == <<"s","h","a","r","e","s">>
FY == <<"F","Y">>
Q2 == <<"Q","2">>
Form10K == <<"1","0","-","K">>
Form10Q == <<"1","0","-","Q">>
Filed2024 == <<"2","0","2","4","-","0","2","-","0","1">>

\* Concept tags are XBRL element names in compact mixed case: letters and
\* digits, no whitespace.
TagAlphabet == {"E", "S", "s", "1"}

Tags == BoundedSeqs(TagAlphabet, MaxTagLen) \cup {AssetsCurrent, EPS}

\* The magnitudes at which the number of digits, and so of groups, changes.
Magnitudes ==
    {0, 2500, 1234567, 5000000}
    \cup {Pow10(k) : k \in 0..MaxPow}
    \cup {Pow10(k) - 1 : k \in 1..MaxPow}

Values == Magnitudes \cup {-m : m \in Magnitudes}

Units == {USD, Shares}
Years == {2023, 1999}
Periods == {FY, Q2}
Forms == {Form10K, Form10Q}
Dates == {Filed2024}

InfoIdle == info_call = None /\ info_frame = [pc |-> "idle"]

FactIdleVars == fact_call = None /\ fact_frame = FactIdle

RunIdle ==
    /\ pc = "idle"
    /\ ticker = None
    /\ response = None
    /\ companies = None
    /\ cik = None
    /\ facts_response = None
    /\ raw_data = None
    /\ tags = None
    /\ concept_filings = None
    /\ cursor = None
    /\ files = None
    /\ outcome = None

\* A call of make_fact with arguments drawn from the input sets.
InitFact ==
    /\ fact_call \in [tag : Tags, value : Values, unit : Units,
                      fiscal_year : Years, fiscal_period : Periods,
                      form_type : Forms, date_filed : Dates]
    /\ fact_frame = FactEntry(fact_call)
    /\ InfoIdle
    /\ RunIdle

NextFact == FactConcept \/ FactPeriod \/ FactFormat \/ FactSentence

SpecFact == InitFact /\ [][NextFact]_vars

\* Most filings listed under one unit of a concept.
MaxObs == 2

\* Filings as data.sec.gov lists them; the last lacks its 'filed' key.
Filing10K == [val |-> 5000000, fy |-> 2023, fp |-> FY, form |-> Form10K, filed |-> Filed2024]
Filing10Q == [val |-> -2500, fy |-> 1999, fp |-> Q2, form |-> Form10Q, filed |-> Filed2024]
FilingNoDate == [val |-> 0, fy |-> 2023, fp |-> FY, form |-> Form10K]

FilingLists == BoundedSeqs({Filing10K, Filing10Q, FilingNoDate}, MaxObs)

UnitNames == {USD, Shares}

\* The sequences over S without a repeated element.
DistinctSeqs(S) ==
    {q \in BoundedSeqs(S, Cardinality(S)) :
        \A i, j \in 1..Len(q) : i # j => q[i] # q[j]}

\* The dicts with keys in K and values in V.
Dicts(K, V) ==
    UNION {{[i \in 1..Len(q) |-> [key |-> q[i], value |-> v[i]]] :
                v \in [1..Len(q) -> V]} : q \in DistinctSeqs(K)}

\* What facts[taxonomy][tag] may hold: a well-formed concept over any units,
\* or one that lacks a key.
RawConcepts ==
    {[label |-> "Current Assets", description |-> "Total current assets", units |-> u] :
        u \in Dicts(UnitNames, FilingLists)}
    \cup {[description |-> "Total current assets",
           units |-> <<[key |-> USD, value |-> <<Filing10K>>]>>],
          [label |-> "Current Assets", description |-> "Total current assets"]}

\* The calls of make_concept_info: a document holding one concept, asked for
\* under its own taxonomy or under one the document lacks.
ConceptCalls ==
    {[company_data |-> [facts |-> <<[key |-> "us-gaap",
                                     value |-> <<[key |-> tag, value |-> raw]>>]>>],
      tag |-> tag, taxonomy |-> taxonomy] :
        tag \in {AssetsCurrent, EPS}, raw \in RawConcepts,
        taxonomy \in {"us-gaap", "dei"}}

InitConcept ==
    /\ info_call \in ConceptCalls
    /\ info_frame = InfoEntry
    /\ FactIdleVars
    /\ RunIdle

NextConcept == InfoHeader \/ InfoAppend \/ InfoNextUnit \/ InfoReturn

SpecConcept == InitConcept /\ [][NextConcept]_vars

\* Longest company list in a reply of www.sec.gov.
MaxCompanies == 3

\* Most taxonomies in a company facts document.
MaxTaxonomies == 2

\* The entries of company_tickers.json: www.sec.gov lists tickers in upper
\* case, once or more often; "Ab" stands for a ticker of mixed case.
RawCompanies ==
    [title : {"Apple Inc."},
     ticker : {<<"A","B">>, <<"A","b">>, <<"C">>},
     cik_str : {7, 320193}]

\* The tickers asked for: listed ones in lower case, one in upper case, and
\* one not listed.
Queries == {<<"a","b">>, <<"c">>, <<"A","B">>, <<"d">>}

\* What a request may end in: a timeout, a reply without data, or a reply of
\* status 200 carrying one of the documents.
Replies(documents) ==
    {[kind |-> "timeout"], [kind |-> "reply", status_code |-> 404]}
    \cup {[kind |-> "reply", status_code |-> 200, json |-> d] : d \in documents}

\* The file system before the run: ./data/sec exists or not, nothing written.
FreshFiles ==
    {[data_dir |-> b, companies_json |-> None, ticker_json |-> None] :
        b \in BOOLEAN}

InitResolve ==
    /\ pc = "companies"
    /\ ticker \in Queries
    /\ response \in Replies(BoundedSeqs(RawCompanies, MaxCompanies))
    /\ files \in FreshFiles
    /\ companies = None
    /\ cik = None
    /\ facts_response = None
    /\ raw_data = None
    /\ tags = None
    /\ concept_filings = None
    /\ cursor = None
    /\ outcome = None
    /\ FactIdleVars
    /\ InfoIdle

NextResolve == GetCompanyIdentifiers \/ ResolveCik

SpecResolve == InitResolve /\ [][NextResolve]_vars

TaxonomyNames == <<"us-gaap", "dei", "ifrs-full", "srt", "invest">>

Taxonomies == {TaxonomyNames[i] : i \in 1..MaxTaxonomies}

TagNames == {AssetsCurrent, EPS}

TaxonomyIndex(taxonomy) ==
    CHOOSE i \in 1..Len(TaxonomyNames) : TaxonomyNames[i] = taxonomy

\* The concept a document holds under (taxonomy, tag): label, description,
\* units and filings differ from one taxonomy to the next, so that records of
\* the same tag are told apart; the concept `broken` lacks its label.
ConceptOf(taxonomy, tag, broken) ==
    LET n == TaxonomyIndex(taxonomy)
        full ==
            [label |-> <<"label", taxonomy>>,
             description |-> <<"description", taxonomy>>,
             units |-> IF n % 2 = 1
                       THEN <<[key |-> USD, value |-> <<Filing10K, Filing10Q>>]>>
                       ELSE <<[key |-> Shares, value |-> <<Filing10Q>>],
                              [key |-> USD, value |-> <<Filing10K>>]>>]
    IN  IF broken = <<taxonomy, tag>>
        THEN [description |-> full.description, units |-> full.units]
        ELSE full

\* The company facts documents: one without 'facts', and every choice of
\* taxonomies and of tags under each, in every order, with at most one
\* broken concept.
Documents ==
    {[entityName |-> "Apple Inc."]}
    \cup {[facts |->
             [i \in 1..Len(shape) |->
                [key |-> shape[i].key,
                 value |->
                    [j \in 1..Len(shape[i].value) |->
                        [key |-> shape[i].value[j],
                         value |-> ConceptOf(shape[i].key, shape[i].value[j],
                                             broken)]]]]] :
            shape \in Dicts(Taxonomies, DistinctSeqs(TagNames)),
            broken \in {<<>>} \cup (Taxonomies \X TagNames)}

\* The company list of the runs: the ticker "ab" is listed twice.
RunCompanies ==
    <<[title |-> "Apple Inc.", ticker |-> <<"A","B">>, cik_str |-> 320193],
      [title |-> "Apple Inc.", ticker |-> <<"A","b">>, cik_str |-> 7]>>

\* A run of get_filings_from_ticker on a fresh file system.
Init ==
    /\ pc = "companies"
    /\ ticker \in {<<"a","b">>, <<"d">>}
    /\ response \in Replies({RunCompanies})
    /\ facts_response \in Replies(Documents)
    /\ files \in FreshFiles
    /\ companies = None
    /\ cik = None
    /\ raw_data = None
    /\ tags = None
    /\ concept_filings = None
    /\ cursor = None
    /\ outcome = None
    /\ FactIdleVars
    /\ InfoIdle

Next ==
    \/ GetCompanyIdentifiers
    \/ ResolveCik
    \/ GetRawData
    \/ EnumerateTags
    \/ AssembleTag
    \/ AssembleNextTaxonomy
    \/ AssembleReturn
    \/ WriteOutput
    \/ ReturnFilings

Spec == Init /\ [][Next]_vars

-----------------------------------------------------------------------------
(* Properties of make_fact                                                 *)

\* s without its occurrences of the character ch.
Without(s, ch) == SelectSeq(s, LAMBDA c : c # ch)

\* How many positions of s hold a character satisfying Test.
CountIf(s, Test(_)) == Cardinality({i \in 1..Len(s) : Test(s[i])})

IsSpace(c) == c = " "

\* The concatenation of a sequence of strings.
RECURSIVE Join(_)
Join(parts) == IF parts = <<>> THEN <<>> ELSE Head(parts) \o Join(Tail(parts))

ScenarioCall ==
    [tag |-> AssetsCurrent, value |-> 5000000, unit |-> USD,
     fiscal_year |-> 2023, fiscal_period |-> FY, form_type |-> Form10K,
     date_filed |-> Filed2024]

ScenarioFact == <<"T","h","e"," ","r","e","p","o","r","t","e","d"," ","'","A","s","s","e","t","s"," ","C","u","r","r","e","n","t","'"," ","i","n"," ","2","0","2","3"," ","(","F","u","l","l"," ","Y","e","a","r",")"," ","f","i","l","e","d"," ","i","n"," ","a"," ","1","0","-","K"," ","f","o","r","m"," ","o","n"," ","2","0","2","4","-","0","2","-","0","1"," ","w","a","s"," ","5",",","0","0","0",",","0","0","0"," ","U","S","D",".">>

\* C7: the string make_fact returns is the fixed template "The reported
\* '<humanized tag>' in <fiscal_year> (<period>) filed in a <form_type> form on
\* <date_filed> was <formatted value> <unit>." with "Full Year" for the period
\* "FY", every other period unchanged, and fiscal_year, form_type, date_filed
\* and unit as passed by the caller; for the end-to-end scenario it is the
\* sentence "The reported 'Assets Current' in 2023 (Full Year) filed in a 10-K
\* form on 2024-02-01 was 5,000,000 USD.".
C7_Template ==
    fact_frame.pc = "returned" =>
        /\ fact_frame.fact =
             Join(<< <<"T","h","e"," ","r","e","p","o","r","t","e","d"," ","'">>,
                     fact_frame.concept,
                     <<"'"," ","i","n"," ">>,
                     Str(fact_call.fiscal_year),
                     <<" ","(">>,
                     IF fact_call.fiscal_period = <<"F","Y">>
                     THEN <<"F","u","l","l"," ","Y","e","a","r">>
                     ELSE fact_call.fiscal_period,
                     <<")"," ","f","i","l","e","d"," ","i","n"," ","a"," ">>,
                     fact_call.form_type,
                     <<" ","f","o","r","m"," ","o","n"," ">>,
                     fact_call.date_filed,
                     <<" ","w","a","s"," ">>,
                     fact_frame.formatted_value,
                     <<" ">>,
                     fact_call.unit,
                     <<".">> >>)
        /\ fact_call = ScenarioCall => fact_frame.fact = ScenarioFact

\* make_fact has returned the sentence of the end-to-end scenario.
C7_Witness ==
    /\ fact_frame.pc = "returned"
    /\ fact_call = ScenarioCall
    /\ fact_frame.fact = ScenarioFact

\* C8: the humanized tag is the tag with one space inserted before each
\* upper-case character and the ends trimmed: without its spaces it is the tag
\* itself, every upper-case character but a leading one follows exactly one
\* space, every space precedes an upper-case character, it neither starts nor
\* ends with a space, and it holds as many spaces as the tag has upper-case
\* characters, less one when the tag starts with one; "AssetsCurrent" gives
\* "Assets Current" and "EPS" gives "E P S".
C8_Humanize ==
    fact_frame.pc \in {"period", "format", "sentence", "returned"} =>
        LET tag == fact_call.tag
            concept == fact_frame.concept
        IN  /\ Without(concept, " ") = tag
            /\ concept # <<>> => concept[1] # " " /\ concept[Len(concept)] # " "
            /\ \A i \in 2..Len(concept) :
                  IsUpper(concept[i]) =>
                      /\ concept[i - 1] = " "
                      /\ i > 2 => concept[i - 2] # " "
            /\ \A i \in 1..Len(concept) :
                  concept[i] = " " => i < Len(concept) /\ IsUpper(concept[i + 1])
            /\ CountIf(concept, IsSpace) =
                  CountIf(tag, IsUpper)
                  - (IF tag # <<>> /\ IsUpper(tag[1]) THEN 1 ELSE 0)
            /\ tag = AssetsCurrent =>
                  concept = <<"A","s","s","e","t","s"," ","C","u","r","r","e","n","t">>
            /\ tag = EPS => concept = <<"E"," ","P"," ","S">>

\* An acronym run has been humanized.
C8_Witness ==
    /\ fact_frame.pc = "period"
    /\ fact_call.tag = EPS
    /\ fact_frame.concept = <<"E"," ","P"," ","S">>

\* C9: the formatted value is the decimal rendering of the value with a comma
\* between each group of three digits counted from the right and nothing else
\* added: without its commas it is str(value), a minus sign leads exactly when
\* the value is negative, and in the magnitude the commas stand exactly at the
\* positions that leave a multiple of three digits to their right;
\* 1234567 gives "1,234,567", 0 gives "0" and -2500 gives "-2,500".
C9_FormatValue ==
    fact_frame.pc \in {"sentence", "returned"} =>
        LET value == fact_call.value
            formatted == fact_frame.formatted_value
            magnitude == IF value < 0 THEN Tail(formatted) ELSE formatted
        IN  /\ Without(formatted, ",") = Str(value)
            /\ value < 0 <=> formatted[1] = "-"
            /\ \A i \in 1..Len(magnitude) :
                  /\ magnitude[i] = "," <=> (Len(magnitude) - i) % 4 = 3
                  /\ magnitude[i] # "," =>
                        \E d \in 1..Len(DigitChars) : DigitChars[d] = magnitude[i]
            /\ value = 1234567 =>
                  formatted = <<"1",",","2","3","4",",","5","6","7">>
            /\ value = 0 => formatted = <<"0">>
            /\ value = -2500 => formatted = <<"-","2",",","5","0","0">>

\* A negative value of four digits has been formatted.
C9_Witness ==
    /\ fact_frame.pc = "sentence"
    /\ fact_call.value = -2500
    /\ fact_frame.formatted_value = <<"-","2",",","5","0","0">>

-----------------------------------------------------------------------------
(* Properties of make_concept_info                                         *)

\* The number of filings listed under the first n units.
RECURSIVE FilingsBefore(_, _)
FilingsBefore(units, n) ==
    IF n = 0 THEN 0 ELSE FilingsBefore(units, n - 1) + Len(units[n].value)

\* The record of the running call exists: the header has been built.
InfoBuilt ==
    \/ info_frame.pc \in {"loop", "returned"}
    \/ info_frame.pc = "raised" /\ info_frame.concept # None

\* C1: in every record make_concept_info builds, after each turn of its loop
\* pair as at its return, facts and filings have the same length and facts[i]
\* is the sentence make_fact gives for the record's tag and the unit, value,
\* fiscal year, fiscal period, form type and filing date of filings[i].
C1_IndexAlignment ==
    InfoBuilt =>
        LET concept == info_frame.concept
        IN  /\ Len(concept.facts) = Len(concept.filings)
            /\ \A i \in 1..Len(concept.filings) :
                  concept.facts[i] =
                      MakeFact(concept.tag, concept.filings[i].value,
                               concept.filings[i].unit,
                               concept.filings[i].fiscal_year,
                               concept.filings[i].fiscal_period,
                               concept.filings[i].form_type,
                               concept.filings[i].date_filed)

\* The loop pair is in its second unit, with a repeated filing behind it.
C1_Witness ==
    /\ info_frame.pc = "loop"
    /\ info_frame.ui = 2
    /\ info_frame.fi = 2
    /\ Len(info_frame.concept.facts) = 3
    /\ info_frame.concept.filings[1] = info_frame.concept.filings[2]

\* C4: the filings of the record are the filings of the concept's units, each
\* once, in source order: units in the key order of the document, the filings
\* of a unit in list order, each with its unit name and its val, fy, fp, form
\* and filed values as they stand in the document, repeated filings repeated;
\* at the return their number is the sum of the lengths of the units' lists.
C4_SourceOrder ==
    InfoBuilt =>
        LET units == InfoUnits
            filings == info_frame.concept.filings
        IN  /\ Len(filings) =
                  IF info_frame.pc = "returned"
                  THEN FilingsBefore(units, Len(units))
                  ELSE FilingsBefore(units, info_frame.ui - 1) + info_frame.fi - 1
            /\ \A u \in 1..Len(units) : \A j \in 1..Len(units[u].value) :
                  FilingsBefore(units, u - 1) + j <= Len(filings) =>
                      filings[FilingsBefore(units, u - 1) + j] =
                          [unit |-> units[u].key,
                           value |-> units[u].value[j].val,
                           fiscal_year |-> units[u].value[j].fy,
                           fiscal_period |-> units[u].value[j].fp,
                           form_type |-> units[u].value[j].form,
                           date_filed |-> units[u].value[j].filed]

\* A record has been returned for a concept of two units, shares before USD,
\* whose first unit repeats a filing.
C4_Witness ==
    /\ info_frame.pc = "returned"
    /\ Len(InfoUnits) = 2
    /\ InfoUnits[1].key = Shares
    /\ InfoUnits[1].value = <<Filing10Q, Filing10Q>>
    /\ InfoUnits[2].value = <<Filing10K, Filing10Q>>
    /\ Len(info_frame.concept.filings) = 4

-----------------------------------------------------------------------------
(* Properties of the identifier lookup                                     *)

\* get_cik_from_ticker has returned: to the fetch of the raw data, or to the
\* ValueError get_filings_from_ticker raises for None.
Resolved ==
    /\ companies # None
    /\ pc = "raw_data" \/ (pc = "done" /\ outcome = Raised("ValueError"))

\* C6: get_cik_from_ticker matches the ticker asked for, as given, against
\* the lower-cased tickers of the list; it returns the cik of the first entry
\* that matches, whatever later entries hold, and returns None, raising
\* nothing itself, when none matches.
C6_FirstMatch ==
    Resolved =>
        LET listed == response.json
            matches == {i \in 1..Len(listed) : Lower(listed[i].ticker) = ticker}
        IN  IF matches = {}
            THEN cik = None
            ELSE LET first == CHOOSE i \in matches : \A j \in matches : i <= j
                 IN  /\ cik = Some(companies[1][first].cik)
                     /\ cik = Some(ZFill(Str(listed[first].cik_str), CikWidth))
                     /\ pc = "raw_data"

\* The ticker asked for is listed twice, under different ciks, and the first
\* was returned.
C6_Witness ==
    /\ Resolved
    /\ Len(companies[1]) >= 2
    /\ companies[1][1].ticker = ticker
    /\ companies[1][2].ticker = ticker
    /\ companies[1][1].cik # companies[1][2].cik
    /\ cik = Some(companies[1][1].cik)

-----------------------------------------------------------------------------
(* Properties of the assembly and of the run                               *)

\* The keys of a dict, as a set.
KeySet(d) == {d[i].key : i \in 1..Len(d)}

\* The tags of a tags mapping, over all its taxonomies.
AllTags(mapping) ==
    UNION {{mapping[i].value[j] : j \in 1..Len(mapping[i].value)} :
              i \in 1..Len(mapping)}

\* make_concept_filings has returned its document.
Assembled ==
    \/ pc \in {"save", "written"}
    \/ pc = "done" /\ outcome.kind = "returned"

\* C2: the keys of the assembled document are the tags get_tags enumerated,
\* over all taxonomies, each once, and those are the tags of the raw
\* document.
C2_Completeness ==
    Assembled =>
        /\ KeySet(concept_filings[1]) = AllTags(tags[1])
        /\ Cardinality(KeySet(concept_filings[1])) = Len(concept_filings[1])
        /\ Len(tags[1]) = Len(raw_data[1].facts)
        /\ \A i \in 1..Len(tags[1]) :
              /\ tags[1][i].key = raw_data[1].facts[i].key
              /\ tags[1][i].value = Keys(raw_data[1].facts[i].value)

\* A document of two taxonomies and three tags, one shared, is assembled.
C2_Witness ==
    /\ Assembled
    /\ Len(tags[1]) = 2
    /\ Len(tags[1][1].value) + Len(tags[1][2].value) = 3
    /\ Len(concept_filings[1]) = 2

\* The last taxonomy, in enumeration order, that lists the tag.
LastTaxonomy(mapping, tag) ==
    mapping[CHOOSE i \in 1..Len(mapping) :
               /\ tag \in {mapping[i].value[j] : j \in 1..Len(mapping[i].value)}
               /\ \A k \in (i + 1)..Len(mapping) :
                     tag \notin {mapping[k].value[j] : j \in 1..Len(mapping[k].value)}
           ].key

\* C3: the record the assembled document holds under a tag is the record
\* built from the last taxonomy, in the enumeration order of the tags
\* mapping, that lists the tag: taxonomy, label, description, facts and
\* filings are those of that taxonomy alone.
C3_LastWriteWins ==
    Assembled =>
        \A n \in 1..Len(concept_filings[1]) :
            LET tag == concept_filings[1][n].key
                record == concept_filings[1][n].value
                taxonomy == LastTaxonomy(tags[1], tag)
                raw == RawConcept(raw_data[1], tag, taxonomy)
            IN  /\ record = MakeConceptInfo(raw_data[1], tag, taxonomy).value
                /\ record.taxonomy = taxonomy
                /\ record.label = raw.label
                /\ record.description = raw.description
                /\ Len(record.filings) = FilingsBefore(raw.units, Len(raw.units))
                /\ \A i \in 1..Len(record.filings) :
                      \E u \in 1..Len(raw.units) :
                          record.filings[i].unit = raw.units[u].key

\* A tag listed under both taxonomies is held with the record of the second.
C3_Witness ==
    /\ Assembled
    /\ Len(tags[1]) = 2
    /\ Len(tags[1][1].value) >= 1
    /\ Len(tags[1][2].value) >= 1
    /\ \E n \in 1..Len(concept_filings[1]) :
          /\ concept_filings[1][n].key = tags[1][1].value[1]
          /\ concept_filings[1][n].key = tags[1][2].value[1]
          /\ concept_filings[1][n].value.taxonomy = tags[1][2].key

\* The document of the run is complete: every tag of the raw document has
\* been stored and the loop pair is past its last taxonomy.
Complete(document) ==
    /\ cik # None
    /\ raw_data # None
    /\ tags # None
    /\ cursor.ti > Len(tags[1])
    /\ KeySet(document) = AllTags(GetTags(raw_data[1]))

\* C5: a run writes the output file and returns a document only once the cik
\* is resolved, the raw document fetched and every tag assembled, and what it
\* writes and returns is that complete document; a run whose ticker is not
\* listed, whose fetch gave no data or whose transformation raised ends with
\* an error, with no output file written.
C5_CompleteOrFailed ==
    /\ files.ticker_json # None =>
          /\ files.ticker_json = concept_filings
          /\ Complete(files.ticker_json[1])
          /\ pc \in {"written", "done"}
    /\ pc = "done" =>
          \/ /\ outcome.kind = "raised"
             /\ files.ticker_json = None
          \/ /\ outcome.kind = "returned"
             /\ files.ticker_json = Some(outcome.value)
             /\ Complete(outcome.value)
    /\ pc = "done" /\ outcome.kind = "returned" =>
          /\ response.kind = "reply" /\ response.status_code = 200
          /\ \E i \in 1..Len(response.json) :
                Lower(response.json[i].ticker) = ticker
          /\ facts_response.kind = "reply" /\ facts_response.status_code = 200
          /\ "facts" \in DOMAIN facts_response.json
          /\ \A i \in 1..Len(facts_response.json.facts) :
                \A j \in 1..Len(facts_response.json.facts[i].value) :
                    "label" \in DOMAIN facts_response.json.facts[i].value[j].value

\* A run returned its document, and it holds tags of two taxonomies.
C5_Witness ==
    /\ pc = "done"
    /\ outcome.kind = "returned"
    /\ Len(outcome.value) = 2
    /\ Len(tags[1]) = 2
    /\ files.ticker_json = Some(outcome.value)

\* C10: while the document is assembled and afterwards, each key holds a
\* record whose tag is the key and whose taxonomy lists the key among its
\* enumerated tags, with the label and description the raw document holds
\* under that taxonomy and tag; the raw document stays the one fetched.
C10_RecordsMatchKeys ==
    concept_filings # None =>
        /\ raw_data = Some(facts_response.json)
        /\ \A n \in 1..Len(concept_filings[1]) :
              LET key == concept_filings[1][n].key
                  record == concept_filings[1][n].value
              IN  /\ record.tag = key
                  /\ \E i \in 1..Len(tags[1]) :
                        /\ tags[1][i].key = record.taxonomy
                        /\ \E j \in 1..Len(tags[1][i].value) :
                              tags[1][i].value[j] = key
                  /\ HasConcept(raw_data[1], key, record.taxonomy)
                  /\ record.label =
                        RawConcept(raw_data[1], key, record.taxonomy).label
                  /\ record.description =
                        RawConcept(raw_data[1], key, record.taxonomy).description

\* The loop pair is in its second taxonomy and has overwritten a record of
\* the first.
C10_Witness ==
    /\ pc = "assemble"
    /\ cursor.ti = 2
    /\ cursor.gi = 2
    /\ Len(concept_filings[1]) = 1
    /\ concept_filings[1][1].value.taxonomy = tags[1][2].key

====
